---- MODULE Spec2Model ----
(***************************************************************************)
(* A model of the Ambari inventory plugin (src/inventory/ambari.py):       *)
(* InventoryModule.parse and the methods it calls, as a state machine over *)
(* the plugin's fields, the inventory it fills and the HTTP requests it    *)
(* issues.                                                                 *)
(*                                                                         *)
(* Text (host, group, field and variable names) is a sequence of one-      *)
(* character strings, so that str.lower, str.startswith and sorted are     *)
(* computed as Python computes them.  A Python value is a record with a    *)
(* type tag: None, a bool, an int, a str or a dict.                        *)
(***************************************************************************)
EXTENDS Integers, Sequences, FiniteSets, TLC

VARIABLES
    environ,        \* os.environ: environment variable name -> str, or Unset
    options,        \* the options of the YAML source, as get_option returns them
    config,         \* self.config
    pc,             \* the statement of parse that runs next
    error,          \* the exception that ended the run, if any
    client,         \* self._client: the arguments Ambari(...) was built with
    warnings_disabled, \* urllib3.disable_warnings() was called
    cluster_name,   \* parse's _cluster_name
    services_name,  \* parse's _services_name
    hosts_name,     \* parse's _hosts_name
    hosts_listing,  \* the host records the API returned to _get_hosts_name
    components_listing, \* the component records the API returned to _get_services_name
    service_index,  \* _populate_groups: the position of its loop over services_name
    host_index,     \* _populate_hosts: the position of its loop over hosts_name
    request_index,  \* _populate_hosts: the position of its loop over services_name
    configurations, \* _populate_hosts: the local dict `configurations`
    last_response,  \* the last response of the service-configuration endpoint
    requests_sent,  \* the HTTP requests issued so far: [api, verify]
    inventory,      \* self.inventory: groups, hosts, children, members, variables
    calls           \* the calls made on self.inventory, in order

vars == <<environ, options, config, pc, error, client, warnings_disabled,
          cluster_name, services_name, hosts_name, hosts_listing,
          components_listing, service_index, host_index, request_index,
          configurations, last_response, requests_sent, inventory, calls>>

(***************************************************************************)
(* Bounds of the model.                                                    *)
(***************************************************************************)
\* configuration keys given a value (by the environment or the file) in
\* the runs of SpecConfig
MaxConfigured == 2
\* component records in one listing of the API
MaxComponents == 2
\* host records in the host listing of the API
MaxHosts == 2
\* components the API reports installed on one host
MaxHostComponents == 1

(***************************************************************************)
(* Text.                                                                   *)
(***************************************************************************)
\* The characters the model's texts use, in code point order.
Alphabet ==
    <<"-", ".", "0", "1", "2", "3", "4", "5", "6", "7", "8", "9", "A", "B",
      "C", "D", "E", "F", "G", "H", "I", "J", "K", "L", "M", "N", "O", "P",
      "Q", "R", "S", "T", "U", "V", "W", "X", "Y", "Z", "_", "a", "b", "c",
      "d", "e", "f", "g", "h", "i", "j", "k", "l", "m", "n", "o", "p", "q",
      "r", "s", "t", "u", "v", "w", "x", "y", "z">>

\* ord(c), up to the order of the code points
OrdTable ==
    [c \in {Alphabet[i] : i \in 1..Len(Alphabet)} |->
        CHOOSE i \in 1..Len(Alphabet) : Alphabet[i] = c]

Ord(c) == OrdTable[c]

UpperCase ==
    <<"A", "B", "C", "D", "E", "F", "G", "H", "I", "J", "K", "L", "M", "N",
      "O", "P", "Q", "R", "S", "T", "U", "V", "W", "X", "Y", "Z">>
LowerCase ==
    <<"a", "b", "c", "d", "e", "f", "g", "h", "i", "j", "k", "l", "m", "n",
      "o", "p", "q", "r", "s", "t", "u", "v", "w", "x", "y", "z">>

\* str.lower() on one character
LowerTable ==
    [c \in {Alphabet[i] : i \in 1..Len(Alphabet)} |->
        IF \E i \in 1..Len(UpperCase) : UpperCase[i] = c
        THEN LowerCase[CHOOSE i \in 1..Len(UpperCase) : UpperCase[i] = c]
        ELSE c]

LowerChar(c) == LowerTable[c]

\* str.lower()
Lower(s) == [i \in 1..Len(s) |-> LowerChar(s[i])]

\* str.startswith(prefix)
StartsWith(s, prefix) ==
    /\ Len(prefix) <= Len(s)
    /\ \A i \in 1..Len(prefix) : s[i] = prefix[i]

\* s < t for two str: the order sorted() uses, by code point
StrLess(s, t) ==
    \E n \in 0..Len(s) :
        /\ n <= Len(t)
        /\ \A i \in 1..n : s[i] = t[i]
        /\ \/ n = Len(s) /\ n < Len(t)
           \/ n < Len(s) /\ n < Len(t) /\ Ord(s[n + 1]) < Ord(t[n + 1])

\* sorted(set(names)): the distinct names, in increasing order
RECURSIVE SortedSet(_)
SortedSet(S) ==
    IF S = {} THEN <<>>
    ELSE LET least == CHOOSE x \in S : \A y \in S \ {x} : StrLess(x, y)
         IN  <<least>> \o SortedSet(S \ {least})

Range(seq) == {seq[i] : i \in 1..Len(seq)}

\* int(text) of a str: its value when text is decimal digits, and -1 for the
\* ValueError int raises otherwise
IsDigit(c) == Ord("0") <= Ord(c) /\ Ord(c) <= Ord("9")

RECURSIVE ParseInt(_)
ParseInt(s) ==
    IF Len(s) = 0 \/ ~IsDigit(s[Len(s)]) THEN -1
    ELSE LET digit == Ord(s[Len(s)]) - Ord("0")
         IN  IF Len(s) = 1 THEN digit
             ELSE LET rest == ParseInt(SubSeq(s, 1, Len(s) - 1))
                  IN  IF rest = -1 THEN -1 ELSE 10 * rest + digit

(***************************************************************************)
(* Python values.                                                          *)
(***************************************************************************)
PyNone    == [t |-> "none", b |-> FALSE, i |-> 0, s |-> <<>>, d |-> <<>>]
PyBool(b) == [t |-> "bool", b |-> b,     i |-> 0, s |-> <<>>, d |-> <<>>]
PyInt(i)  == [t |-> "int",  b |-> FALSE, i |-> i, s |-> <<>>, d |-> <<>>]
PyStr(s)  == [t |-> "str",  b |-> FALSE, i |-> 0, s |-> s,    d |-> <<>>]
PyDict(d) == [t |-> "dict", b |-> FALSE, i |-> 0, s |-> <<>>, d |-> d]
\* the absence of an environment variable (os.environ raises KeyError)
Unset     == [t |-> "unset", b |-> FALSE, i |-> 0, s |-> <<>>, d |-> <<>>]

\* bool(v)
Truthy(v) ==
    CASE v.t = "none" -> FALSE
      [] v.t = "bool" -> v.b
      [] v.t = "int"  -> v.i # 0
      [] v.t = "str"  -> Len(v.s) > 0
      [] v.t = "dict" -> DOMAIN v.d # {}
      [] OTHER        -> FALSE

\* a or b
PyOr(a, b) == IF Truthy(a) THEN a ELSE b

\* d with d[key] = value
DictSet(d, key, value) ==
    [k \in DOMAIN d \cup {key} |-> IF k = key THEN value ELSE d[k]]

EmptyDict == [k \in {} |-> PyNone]

(***************************************************************************)
(* The texts the code spells out.                                          *)
(***************************************************************************)
S_ambari_host_local ==
    <<"a", "m", "b", "a", "r", "i", "-", "h", "o", "s", "t", ".", "l", "o", "c", "a", "l">>
S_admin ==
    <<"a", "d", "m", "i", "n">>
S_http ==
    <<"h", "t", "t", "p">>
S_https ==
    <<"h", "t", "t", "p", "s">>
S_host ==
    <<"h", "o", "s", "t">>
S_last ==
    <<"l", "a", "s", "t">>
S_desired_configs ==
    <<"d", "e", "s", "i", "r", "e", "d", "_", "c", "o", "n", "f", "i", "g", "s">>
S_configurations ==
    <<"c", "o", "n", "f", "i", "g", "u", "r", "a", "t", "i", "o", "n", "s">>
S_ansible_host ==
    <<"a", "n", "s", "i", "b", "l", "e", "_", "h", "o", "s", "t">>
S_ansible_user ==
    <<"a", "n", "s", "i", "b", "l", "e", "_", "u", "s", "e", "r">>
S_ansible_ssh_pass ==
    <<"a", "n", "s", "i", "b", "l", "e", "_", "s", "s", "h", "_", "p", "a", "s", "s">>
S_ambari_server ==
    <<"a", "m", "b", "a", "r", "i", "_", "s", "e", "r", "v", "e", "r">>
S_ambari_config ==
    <<"a", "m", "b", "a", "r", "i", "_", "c", "o", "n", "f", "i", "g">>
S_protocol ==
    <<"p", "r", "o", "t", "o", "c", "o", "l">>
S_port ==
    <<"p", "o", "r", "t">>
S_username ==
    <<"u", "s", "e", "r", "n", "a", "m", "e">>
S_password ==
    <<"p", "a", "s", "s", "w", "o", "r", "d">>
S_validate_ssl ==
    <<"v", "a", "l", "i", "d", "a", "t", "e", "_", "s", "s", "l">>
S_cluster_name ==
    <<"c", "l", "u", "s", "t", "e", "r", "_", "n", "a", "m", "e">>
S_local ==
    <<"l", "o", "c", "a", "l">>
S_localhost ==
    <<"l", "o", "c", "a", "l", "h", "o", "s", "t">>
S_loopback ==
    <<"1", "2", "7", ".", "0", ".", "0", ".", "1">>
S_ansible_connection ==
    <<"a", "n", "s", "i", "b", "l", "e", "_", "c", "o", "n", "n", "e", "c", "t", "i", "o", "n">>
S_ansible_become ==
    <<"a", "n", "s", "i", "b", "l", "e", "_", "b", "e", "c", "o", "m", "e">>
S_false ==
    <<"f", "a", "l", "s", "e">>
S_toto ==
    <<"t", "o", "t", "o">>
S_tata ==
    <<"t", "a", "t", "a">>

(***************************************************************************)
(* The texts the inputs of the model are drawn from.                       *)
(***************************************************************************)
S_node1 ==
    <<"n", "o", "d", "e", "1">>
S_8080 ==
    <<"8", "0", "8", "0">>
S_x ==
    <<"x">>
S_root ==
    <<"r", "o", "o", "t">>
S_secret ==
    <<"s", "e", "c", "r", "e", "t">>
S_true ==
    <<"t", "r", "u", "e">>
S_empty ==
    <<>>
S_demo ==
    <<"d", "e", "m", "o">>
S_prod ==
    <<"p", "r", "o", "d">>
S_PIG ==
    <<"P", "I", "G">>
S_pig ==
    <<"p", "i", "g">>
S_hdfs ==
    <<"h", "d", "f", "s">>
S_NAMENODE ==
    <<"N", "A", "M", "E", "N", "O", "D", "E">>
S_host_name ==
    <<"h", "o", "s", "t", "_", "n", "a", "m", "e">>
S_last_heartbeat_time ==
    <<"l", "a", "s", "t", "_", "h", "e", "a", "r", "t", "b", "e", "a", "t", "_", "t", "i", "m", "e">>
S_ip ==
    <<"i", "p">>
S_core_site ==
    <<"c", "o", "r", "e", "-", "s", "i", "t", "e">>
S_hdfs_site ==
    <<"h", "d", "f", "s", "-", "s", "i", "t", "e">>

(***************************************************************************)
(* The configuration resolver: _set_config and _parse_config.              *)
(***************************************************************************)
ConfigKeys ==
    {"hostname", "port", "username", "password", "protocol", "validate_ssl",
     "ansible_user", "ansible_ssh_pass"}

\* the environment variable _parse_config names for each key
EnvName(key) ==
    CASE key = "hostname"         -> "AMBARI_HOSTNAME"
      [] key = "port"             -> "AMBARI_PORT"
      [] key = "username"         -> "AMBARI_USERNAME"
      [] key = "password"         -> "AMBARI_PASSWORD"
      [] key = "protocol"         -> "AMBARI_PROTOCOL"
      [] key = "validate_ssl"     -> "AMBARI_VALIDATE_SSL"
      [] key = "ansible_user"     -> "ANSIBLE_USER"
      [] key = "ansible_ssh_pass" -> "ANSIBLE_SSH_PASS"

EnvNames == {EnvName(key) : key \in ConfigKeys}

\* self.config[key] from os.environ[env_key], and on KeyError
\* from get_option(option_key) or default
_set_config(cfg, key, env_key, option_key, default) ==
    IF environ[env_key] # Unset
    THEN DictSet(cfg, key, environ[env_key])
    ELSE DictSet(cfg, key, PyOr(options[option_key], default))

\* _parse_config: self.config after its eight calls of _set_config
ParsedConfig ==
    LET c0 == [k \in {} |-> PyNone]
        c1 == _set_config(c0, "hostname", "AMBARI_HOSTNAME", "hostname",
                        PyStr(S_ambari_host_local))
        c2 == _set_config(c1, "port", "AMBARI_PORT", "port", PyInt(8443))
        c3 == _set_config(c2, "username", "AMBARI_USERNAME", "username",
                        PyStr(S_admin))
        c4 == _set_config(c3, "password", "AMBARI_PASSWORD", "password",
                        PyStr(S_admin))
        c5 == _set_config(c4, "protocol", "AMBARI_PROTOCOL", "protocol",
                        PyStr(S_http))
        c6 == _set_config(c5, "validate_ssl", "AMBARI_VALIDATE_SSL",
                        "validate_ssl", PyBool(FALSE))
        c7 == _set_config(c6, "ansible_user", "ANSIBLE_USER", "ansible_user",
                        PyNone)
        c8 == _set_config(c7, "ansible_ssh_pass", "ANSIBLE_SSH_PASS",
                        "ansible_ssh_pass", PyNone)
    IN  c8

\* self.config.get(key)
ConfigGet(key) == IF key \in DOMAIN config THEN config[key] ELSE PyNone

(***************************************************************************)
(* The inputs of the resolver: the values the environment and the file may *)
(* give each key.                                                          *)
(***************************************************************************)
EnvChoices(key) ==
    CASE key = "hostname"         -> {PyStr(S_node1)}
      [] key = "port"             -> {PyStr(S_8080), PyStr(S_x)}
      [] key = "username"         -> {PyStr(S_root)}
      [] key = "password"         -> {PyStr(S_secret)}
      [] key = "protocol"         -> {PyStr(S_https)}
      [] key = "validate_ssl"     -> {PyStr(S_true)}
      [] key = "ansible_user"     -> {PyStr(S_root), PyStr(S_empty)}
      [] key = "ansible_ssh_pass" -> {PyStr(S_secret), PyStr(S_empty)}

FileChoices(key) ==
    CASE key = "hostname"         -> {PyStr(S_node1), PyStr(S_empty)}
      [] key = "port"             -> {PyInt(8080), PyInt(0)}
      [] key = "username"         -> {PyStr(S_root)}
      [] key = "password"         -> {PyStr(S_secret)}
      [] key = "protocol"         -> {PyStr(S_https)}
      [] key = "validate_ssl"     -> {PyBool(TRUE), PyBool(FALSE)}
      [] key = "ansible_user"     -> {PyStr(S_admin), PyStr(S_empty)}
      [] key = "ansible_ssh_pass" -> {PyStr(S_admin)}

\* the <<environment value, file value>> pairs that configure a key
Sources(key) ==
    ((EnvChoices(key) \cup {Unset}) \X (FileChoices(key) \cup {PyNone}))
        \ {<<Unset, PyNone>>}

\* the assignments of sources to the keys of K
RECURSIVE Assignments(_)
Assignments(K) ==
    IF K = {} THEN {[k \in {} |-> <<Unset, PyNone>>]}
    ELSE LET key == CHOOSE k \in K : TRUE
         IN  {[k \in K |-> IF k = key THEN p ELSE a[k]] :
                  a \in Assignments(K \ {key}), p \in Sources(key)}

\* the environment and the options in which assignment a configures its keys
EnvironOf(a) ==
    [n \in EnvNames |->
        IF \E k \in DOMAIN a : EnvName(k) = n
        THEN a[CHOOSE k \in DOMAIN a : EnvName(k) = n][1]
        ELSE Unset]

OptionsOf(a) ==
    [k \in ConfigKeys |-> IF k \in DOMAIN a THEN a[k][2] ELSE PyNone]

NoError == [kind |-> "none", status |-> 0]
NoResponse == [status |-> 0, calls |-> 0]
EmptyInventory ==
    [groups |-> {}, hosts |-> {}, children |-> {}, members |-> {},
     variables |-> <<>>]

\* the plugin before parse runs, whatever the environment and the file
Fresh ==
    /\ config = <<>>
    /\ pc = "parse_config"
    /\ error = NoError
    /\ client = PyNone
    /\ warnings_disabled = FALSE
    /\ cluster_name = PyNone
    /\ services_name = <<>>
    /\ hosts_name = <<>>
    /\ hosts_listing = {}
    /\ components_listing = {}
    /\ service_index = 1
    /\ host_index = 1
    /\ request_index = 1
    /\ configurations = <<>>
    /\ last_response = NoResponse
    /\ requests_sent = {}
    /\ inventory = EmptyInventory
    /\ calls = <<>>

\* any environment and file that configure at most MaxConfigured keys
InitConfig ==
    /\ \E K \in SUBSET ConfigKeys :
          /\ Cardinality(K) <= MaxConfigured
          /\ \E a \in Assignments(K) :
                /\ environ = EnvironOf(a)
                /\ options = OptionsOf(a)
    /\ Fresh

\* parse, line 89: self._parse_config()
_parse_config ==
    /\ pc = "parse_config"
    /\ config' = ParsedConfig
    /\ pc' = "initialize_client"
    /\ UNCHANGED <<environ, options, error, client, warnings_disabled,
                   cluster_name, services_name, hosts_name, hosts_listing,
                   components_listing, service_index, host_index, request_index,
                   configurations, last_response, requests_sent, inventory,
                   calls>>

(***************************************************************************)
(* The inventory (self.inventory) and the calls the plugin makes on it.    *)
(* A call records the line of ambari.py that makes it.                     *)
(***************************************************************************)
AddGroup(line, group) ==
    [op |-> "add_group", line |-> line, host |-> <<>>, group |-> PyStr(group),
     child |-> <<>>, key |-> <<>>, value |-> PyNone]

\* add_host(host, group=group, variables=variables); group is None when the
\* call names no group
AddHost(line, host, group, variables) ==
    [op |-> "add_host", line |-> line, host |-> host, group |-> group,
     child |-> <<>>, key |-> <<>>, value |-> variables]

AddChild(line, group, child) ==
    [op |-> "add_child", line |-> line, host |-> <<>>, group |-> PyStr(group),
     child |-> child, key |-> <<>>, value |-> PyNone]

SetVariable(line, host, key, value) ==
    [op |-> "set_variable", line |-> line, host |-> host, group |-> PyNone,
     child |-> <<>>, key |-> key, value |-> value]

\* the variables of host h in inventory inv
HostVars(inv, h) ==
    IF h \in DOMAIN inv.variables THEN inv.variables[h] ELSE EmptyDict

\* the inventory after call c: its operations add what is not there yet and
\* leave what is
Apply(inv, c) ==
    CASE c.op = "add_group" ->
            [inv EXCEPT !.groups = @ \cup {c.group.s}]
      [] c.op = "add_host" ->
            [inv EXCEPT !.hosts = @ \cup {c.host},
                        !.members = IF c.group = PyNone THEN @
                                    ELSE @ \cup {<<c.group.s, c.host>>}]
      [] c.op = "add_child" ->
            [inv EXCEPT !.children = @ \cup {<<c.group.s, c.child>>}]
      [] c.op = "set_variable" ->
            [inv EXCEPT !.variables =
                DictSet(@, c.host, DictSet(HostVars(inv, c.host), c.key, c.value))]

RECURSIVE ApplyAll(_, _)
ApplyAll(inv, cs) ==
    IF cs = <<>> THEN inv ELSE ApplyAll(Apply(inv, Head(cs)), Tail(cs))

\* the concatenation of the sequences of seqs
RECURSIVE Flatten(_)
Flatten(seqs) ==
    IF seqs = <<>> THEN <<>> ELSE Head(seqs) \o Flatten(Tail(seqs))

(***************************************************************************)
(* What the cluster-management API may answer.                             *)
(***************************************************************************)
ClusterListings == {<<>>, <<S_demo>>, <<S_demo, S_prod>>}

ServiceNames == {S_PIG, S_pig, S_hdfs}
ComponentNames == {S_PIG, S_NAMENODE}
ComponentRecords == [service_name : ServiceNames, component_name : ComponentNames]

HostRecords ==
    {[host_name |-> S_node1, host_status |-> "HEALTHY"],
     [host_name |-> S_node1, host_status |-> "UNHEALTHY"],
     [host_name |-> S_localhost, host_status |-> "HEALTHY"]}

\* the subsets of S of at most n elements
AtMost(S, n) == {T \in SUBSET S : Cardinality(T) <= n}

\* the fields of a host's detail record: those of an Ambari host, alone or
\* with fields named as the variables the plugin sets
BaseFields ==
    (S_host_name :> PyStr(S_node1)) @@ (S_last_heartbeat_time :> PyInt(1))
        @@ (S_desired_configs :> PyDict(EmptyDict)) @@ (S_ip :> PyStr(S_loopback))
ExtraFields == {S_ansible_host, S_ansible_user, S_configurations}
HostDetails ==
    {BaseFields, BaseFields @@ [f \in ExtraFields |-> PyStr(S_x)]}

\* the responses of the service-configuration endpoint: a status and a
\* body, that is JSON with an "items" list or is not JSON
Item1 ==
    [configurations |-> <<[type |-> S_core_site, properties |-> PyStr(S_x)]>>]
Item2 ==
    [configurations |->
        <<[type |-> S_hdfs_site, properties |-> PyStr(S_empty)],
          [type |-> S_core_site, properties |-> PyStr(S_true)]>>]
Bodies ==
    {[json |-> FALSE, items |-> <<>>], [json |-> TRUE, items |-> <<Item1, Item2>>]}
StatusCodes == {200, 304, 404, 500}

(***************************************************************************)
(* The run: parse, lines 89 to 112.                                        *)
(***************************************************************************)
Raise(kind, status) ==
    /\ error' = [kind |-> kind, status |-> status]
    /\ pc' = "error"

\* an HTTP request of the run: the resource asked for and the `verify`
\* argument it is sent with
Request(api, verify) == [api |-> api, verify |-> verify]

\* a request of the Ambari client, that verifies as the client was told to
ClientRequest(api) == Request(api, client.validate_ssl)

\* v == False
EqualsFalse(v) == (v.t = "bool" /\ ~v.b) \/ (v.t = "int" /\ v.i = 0)

\* int(v); -1 stands for the ValueError
IntOf(v) ==
    CASE v.t = "int"  -> v.i
      [] v.t = "bool" -> IF v.b THEN 1 ELSE 0
      [] v.t = "str"  -> ParseInt(v.s)
      [] OTHER        -> -1

\* _initialize_client
_initialize_client ==
    /\ pc = "initialize_client"
    /\ warnings_disabled' = EqualsFalse(ConfigGet("validate_ssl"))
    /\ IF IntOf(ConfigGet("port")) = -1
       THEN /\ Raise("ValueError", 0)
            /\ UNCHANGED client
       ELSE /\ client' = [hostname |-> ConfigGet("hostname"),
                          port |-> IntOf(ConfigGet("port")),
                          username |-> ConfigGet("username"),
                          password |-> ConfigGet("password"),
                          protocol |-> ConfigGet("protocol"),
                          validate_ssl |-> ConfigGet("validate_ssl")]
            /\ pc' = "get_cluster_name"
            /\ UNCHANGED error
    /\ UNCHANGED <<environ, options, config, cluster_name, services_name,
                   hosts_name, hosts_listing, components_listing, service_index,
                   host_index, request_index, configurations, last_response,
                   requests_sent, inventory, calls>>

\* _get_cluster_name: the name of the first cluster of the listing, and
\* None (the loop body never runs) when the listing is empty
FirstClusterName(listing) ==
    IF listing = <<>> THEN PyNone ELSE PyStr(listing[1])

_get_cluster_name ==
    /\ pc = "get_cluster_name"
    /\ requests_sent' = requests_sent \cup {ClientRequest("clusters")}
    /\ \/ /\ Raise("ClientError", 0)
          /\ UNCHANGED cluster_name
       \/ \E listing \in ClusterListings :
             /\ cluster_name' = FirstClusterName(listing)
             /\ pc' = "get_services_name"
             /\ UNCHANGED error
    /\ UNCHANGED <<environ, options, config, client, warnings_disabled,
                   services_name, hosts_name, hosts_listing, components_listing,
                   service_index, host_index, request_index, configurations,
                   last_response, inventory, calls>>

\* _get_services_name: the owning service of every component listed
ServicesNameOf(listing) == SortedSet({c.service_name : c \in listing})

_get_services_name ==
    /\ pc = "get_services_name"
    /\ requests_sent' = requests_sent \cup {ClientRequest("services")}
    /\ \/ /\ Raise("ClientError", 0)
          /\ UNCHANGED <<services_name, components_listing>>
       \/ \E listing \in AtMost(ComponentRecords, MaxComponents) :
             /\ components_listing' = listing
             /\ services_name' = ServicesNameOf(listing)
             /\ pc' = "get_hosts_name"
             /\ UNCHANGED error
    /\ UNCHANGED <<environ, options, config, client, warnings_disabled,
                   cluster_name, hosts_name, hosts_listing, service_index,
                   host_index, request_index, configurations, last_response,
                   inventory, calls>>

\* _get_hosts_name
HostsNameOf(listing) == SortedSet({h.host_name : h \in listing})

_get_hosts_name ==
    /\ pc = "get_hosts_name"
    /\ requests_sent' = requests_sent \cup {ClientRequest("hosts")}
    /\ \/ /\ Raise("ClientError", 0)
          /\ UNCHANGED <<hosts_name, hosts_listing>>
       \/ \E listing \in AtMost(HostRecords, MaxHosts) :
             /\ hosts_listing' = listing
             /\ hosts_name' = HostsNameOf(listing)
             /\ pc' = "populate_groups"
             /\ UNCHANGED error
    /\ UNCHANGED <<environ, options, config, client, warnings_disabled,
                   cluster_name, services_name, components_listing,
                   service_index, host_index, request_index, configurations,
                   last_response, inventory, calls>>

\* _get_components_name: the components of service_name among those the API
\* lists (the cluster's components do not change during the run)
_get_components_name(listing, service_name) ==
    SortedSet({c.component_name :
                   c \in {r \in listing : r.service_name = service_name}})

\* ComponentCalls without the test of line 183: the child is always linked.
ComponentCalls_AlwaysLinks(service_name, component_name) ==
    <<AddGroup(182, Lower(component_name)),
      AddChild(184, Lower(service_name), Lower(component_name))>>

\* _populate_groups, lines 182 to 185: the calls for one component
ComponentCalls(service_name, component_name) ==
    <<AddGroup(182, Lower(component_name))>>
    \o (IF Lower(service_name) # Lower(component_name)
        THEN <<AddChild(184, Lower(service_name), Lower(component_name))>>
        ELSE <<>>)

\* _populate_groups, lines 181 to 185: the calls for the components of one
\* service
ServiceCalls(service_name, components_name) ==
    Flatten([i \in 1..Len(components_name) |->
                ComponentCalls(service_name, components_name[i])])

\* _populate_groups: one turn of its loop over services_name, or its end
_populate_groups ==
    /\ pc = "populate_groups"
    /\ IF service_index > Len(services_name)
       THEN /\ pc' = "populate_hosts"
            /\ UNCHANGED <<error, requests_sent, service_index, inventory,
                           calls>>
       ELSE LET service_name == services_name[service_index]
                first == <<AddGroup(179, Lower(service_name))>>
            IN  /\ requests_sent' = requests_sent \cup {ClientRequest("components")}
                /\ \/ /\ Raise("ClientError", 0)
                      /\ calls' = calls \o first
                      /\ inventory' = ApplyAll(inventory, first)
                      /\ UNCHANGED service_index
                   \/ LET made == first \o ServiceCalls(service_name,
                                   _get_components_name(components_listing, service_name))
                      IN  /\ calls' = calls \o made
                          /\ inventory' = ApplyAll(inventory, made)
                          /\ service_index' = service_index + 1
                          /\ UNCHANGED <<pc, error>>
    /\ UNCHANGED <<environ, options, config, client, warnings_disabled,
                   cluster_name, services_name, hosts_name, hosts_listing,
                   components_listing, host_index, request_index,
                   configurations, last_response>>

\* _populate_hosts, lines 194 to 197: the next host is added, or the loop
\* over hosts_name ends
_populate_hosts ==
    /\ pc = "populate_hosts"
    /\ IF host_index > Len(hosts_name)
       THEN /\ pc' = "populate_ambari"
            /\ UNCHANGED <<request_index, configurations, inventory, calls>>
       ELSE LET made == <<AddHost(195, hosts_name[host_index], PyNone, PyNone)>>
            IN  /\ calls' = calls \o made
                /\ inventory' = ApplyAll(inventory, made)
                /\ configurations' = EmptyDict
                /\ request_index' = 1
                /\ pc' = "host_configurations"
    /\ UNCHANGED <<environ, options, config, error, client, warnings_disabled,
                   cluster_name, services_name, hosts_name, hosts_listing,
                   components_listing, service_index, host_index, last_response,
                   requests_sent>>

\* ResponseOk that takes the client errors (4xx) for successes.
ResponseOk_ServerErrors(status) == ~(500 <= status /\ status < 600)

\* requests: Response.ok is False for the statuses raise_for_status raises on,
\* 400 to 599
ResponseOk(status) == ~(400 <= status /\ status < 600)

\* _populate_hosts, lines 200 to 206: the dict of the last item of the
\* response, from configuration type to properties
RECURSIVE ConfigurationJson(_)
ConfigurationJson(cs) ==
    IF cs = <<>> THEN EmptyDict
    ELSE DictSet(ConfigurationJson(SubSeq(cs, 1, Len(cs) - 1)),
                 cs[Len(cs)].type, cs[Len(cs)].properties)

ConfigurationsJson(items) ==
    IF items = <<>> THEN EmptyDict
    ELSE ConfigurationJson(items[Len(items)].configurations)

\* _populate_hosts, lines 199 to 207, with _get_service_current_configuration:
\* the request for the next service of the host, or the end of the loop
_get_service_current_configuration ==
    /\ pc = "host_configurations"
    /\ IF request_index > Len(services_name)
       THEN /\ pc' = "host_variables"
            /\ UNCHANGED <<error, request_index, configurations,
                           last_response, requests_sent>>
       ELSE IF cluster_name = PyNone
       THEN \* line 349: str + None
            /\ Raise("TypeError", 0)
            /\ UNCHANGED <<request_index, configurations, last_response,
                           requests_sent>>
       ELSE /\ requests_sent' = requests_sent \cup
                   {Request("service_config_versions", PyBool(FALSE))}
            /\ \/ /\ Raise("ConnectionError", 0)
                  /\ UNCHANGED <<request_index, configurations, last_response>>
               \/ \E status \in StatusCodes, body \in Bodies :
                     /\ last_response' = [status |-> status, calls |-> Len(calls)]
                     /\ IF ~ResponseOk(status)
                        THEN /\ Raise("HTTPError", status)
                             /\ UNCHANGED <<request_index, configurations>>
                        ELSE IF ~body.json
                        THEN /\ Raise("JSONDecodeError", 0)
                             /\ UNCHANGED <<request_index, configurations>>
                        ELSE /\ configurations' =
                                   DictSet(configurations,
                                           Lower(services_name[request_index]),
                                           PyDict(ConfigurationsJson(body.items)))
                             /\ request_index' = request_index + 1
                             /\ UNCHANGED <<pc, error>>
    /\ UNCHANGED <<environ, options, config, client, warnings_disabled,
                   cluster_name, services_name, hosts_name, hosts_listing,
                   components_listing, service_index, host_index, inventory,
                   calls>>

\* _populate_hosts, lines 214 to 217: the detail fields copied to the host
CopiedField(field) ==
    /\ ~StartsWith(field, S_host)
    /\ ~StartsWith(field, S_last)
    /\ field # S_desired_configs

FieldCalls(host_name, detail) ==
    LET fields == SortedSet({f \in DOMAIN detail : CopiedField(f)})
    IN  [i \in 1..Len(fields) |->
            SetVariable(216, host_name, fields[i], detail[fields[i]])]

\* OverrideCalls that tests `is not None` where the code tests the truth of
\* the value.
OverrideCalls_IsNotNone(host_name) ==
    (IF ConfigGet("ansible_user") # PyNone
     THEN <<SetVariable(220, host_name, S_ansible_user, ConfigGet("ansible_user"))>>
     ELSE <<>>)
    \o (IF ConfigGet("ansible_ssh_pass") # PyNone
        THEN <<SetVariable(223, host_name, S_ansible_ssh_pass,
                           ConfigGet("ansible_ssh_pass"))>>
        ELSE <<>>)

\* _populate_hosts, lines 219 to 224: the SSH overrides
OverrideCalls(host_name) ==
    (IF Truthy(ConfigGet("ansible_user"))
     THEN <<SetVariable(220, host_name, S_ansible_user, ConfigGet("ansible_user"))>>
     ELSE <<>>)
    \o (IF Truthy(ConfigGet("ansible_ssh_pass"))
        THEN <<SetVariable(223, host_name, S_ansible_ssh_pass,
                           ConfigGet("ansible_ssh_pass"))>>
        ELSE <<>>)

\* DetailCalls without line 213: ansible_host is not set.
DetailCalls_NoAnsibleHost(host_name, detail) ==
    FieldCalls(host_name, detail) \o OverrideCalls(host_name)

\* _populate_hosts, lines 212 to 224: the variables set from the host's
\* detail record and from the overrides
DetailCalls(host_name, detail) ==
    <<SetVariable(213, host_name, S_ansible_host, PyStr(host_name))>>
    \o FieldCalls(host_name, detail)
    \o OverrideCalls(host_name)

\* _populate_hosts, lines 226 to 230: the host joins the group of each of
\* its components
MembershipCalls(host_name, components) ==
    LET names == SortedSet(components)
    IN  [i \in 1..Len(names) |->
            AddHost(227, host_name, PyStr(Lower(names[i])),
                    PyDict(S_toto :> PyStr(S_tata)))]

\* _populate_hosts, lines 209 to 230, for the host whose configurations are
\* built
_populate_hosts_variables ==
    /\ pc = "host_variables"
    /\ LET host_name == hosts_name[host_index]
           first == <<SetVariable(209, host_name, S_configurations,
                                  PyDict(configurations))>>
       IN  \/ \* _get_host fails
              /\ requests_sent' = requests_sent \cup {ClientRequest("host")}
              /\ Raise("ClientError", 0)
              /\ calls' = calls \o first
              /\ inventory' = ApplyAll(inventory, first)
              /\ UNCHANGED host_index
           \/ \E detail \in HostDetails :
                 LET second == first \o DetailCalls(host_name, detail)
                 IN  /\ requests_sent' = requests_sent \cup
                            {ClientRequest("host"), ClientRequest("host_components")}
                     /\ \/ \* _get_host_components fails
                           /\ Raise("ClientError", 0)
                           /\ calls' = calls \o second
                           /\ inventory' = ApplyAll(inventory, second)
                           /\ UNCHANGED host_index
                        \/ \E components \in AtMost(ComponentNames, MaxHostComponents) :
                              LET made == second \o
                                          MembershipCalls(host_name, components)
                              IN  /\ calls' = calls \o made
                                  /\ inventory' = ApplyAll(inventory, made)
                                  /\ host_index' = host_index + 1
                                  /\ pc' = "populate_hosts"
                                  /\ UNCHANGED error
    /\ UNCHANGED <<environ, options, config, client, warnings_disabled,
                   cluster_name, services_name, hosts_name, hosts_listing,
                   components_listing, service_index, request_index,
                   configurations, last_response>>

\* _populate_ambari
AmbariCalls ==
    LET _hostname == ConfigGet("hostname").s
        ambari_config ==
            (S_protocol :> ConfigGet("protocol"))
            @@ (S_port :> ConfigGet("port"))
            @@ (S_username :> ConfigGet("username"))
            @@ (S_password :> ConfigGet("password"))
            @@ (S_validate_ssl :> ConfigGet("validate_ssl"))
            @@ (S_cluster_name :> cluster_name)
    IN  <<AddGroup(241, S_ambari_server),
          AddHost(242, _hostname, PyStr(S_ambari_server), PyNone),
          SetVariable(250, _hostname, S_ambari_config, PyDict(ambari_config))>>

_populate_ambari ==
    /\ pc = "populate_ambari"
    /\ calls' = calls \o AmbariCalls
    /\ inventory' = ApplyAll(inventory, AmbariCalls)
    /\ pc' = "populate_localhost"
    /\ UNCHANGED <<environ, options, config, error, client, warnings_disabled,
                   cluster_name, services_name, hosts_name, hosts_listing,
                   components_listing, service_index, host_index, request_index,
                   configurations, last_response, requests_sent>>

\* _populate_localhost
LocalhostCalls ==
    <<AddGroup(258, S_local),
      AddHost(259, S_localhost, PyStr(S_local), PyNone),
      SetVariable(260, S_localhost, S_ansible_host, PyStr(S_loopback)),
      SetVariable(261, S_localhost, S_ansible_connection, PyStr(S_local)),
      SetVariable(262, S_localhost, S_ansible_become, PyStr(S_false))>>

_populate_localhost ==
    /\ pc = "populate_localhost"
    /\ calls' = calls \o LocalhostCalls
    /\ inventory' = ApplyAll(inventory, LocalhostCalls)
    /\ pc' = "done"
    /\ UNCHANGED <<environ, options, config, error, client, warnings_disabled,
                   cluster_name, services_name, hosts_name, hosts_listing,
                   components_listing, service_index, host_index, request_index,
                   configurations, last_response, requests_sent>>

(***************************************************************************)
(* The specifications.                                                     *)
(***************************************************************************)
\* the environments and files of the runs of Spec: the defaults, and one
\* key that the run reads given by the environment or by the file
RunSources ==
    {[k \in {} |-> <<Unset, PyNone>>],
     "validate_ssl" :> <<Unset, PyBool(TRUE)>>,
     "ansible_user" :> <<PyStr(S_root), PyNone>>,
     "ansible_user" :> <<PyStr(S_empty), PyNone>>,
     "ansible_ssh_pass" :> <<Unset, PyStr(S_admin)>>,
     "hostname" :> <<Unset, PyStr(S_node1)>>,
     "port" :> <<PyStr(S_x), PyNone>>}

Init ==
    /\ \E a \in RunSources :
          /\ environ = EnvironOf(a)
          /\ options = OptionsOf(a)
    /\ Fresh

Next ==
    \/ _parse_config
    \/ _initialize_client
    \/ _get_cluster_name
    \/ _get_services_name
    \/ _get_hosts_name
    \/ _populate_groups
    \/ _populate_hosts
    \/ _get_service_current_configuration
    \/ _populate_hosts_variables
    \/ _populate_ambari
    \/ _populate_localhost

Spec == Init /\ [][Next]_vars

\* the configuration resolver alone, in any environment and file that
\* configure at most MaxConfigured keys
NextConfig == _parse_config

SpecConfig == InitConfig /\ [][NextConfig]_vars

(***************************************************************************)
(* The claims.                                                             *)
(***************************************************************************)
\* the defaults the specification documents for each key
DocumentedDefault(key) ==
    CASE key = "hostname"         -> PyStr(S_ambari_host_local)
      [] key = "port"             -> PyInt(8443)
      [] key = "username"         -> PyStr(S_admin)
      [] key = "password"         -> PyStr(S_admin)
      [] key = "protocol"         -> PyStr(S_http)
      [] key = "validate_ssl"     -> PyBool(FALSE)
      [] key = "ansible_user"     -> PyNone
      [] key = "ansible_ssh_pass" -> PyNone

\* the value the three tiers give a key: the environment's, else the
\* file's, else the default
ThreeTier(key) ==
    IF environ[EnvName(key)] # Unset THEN environ[EnvName(key)]
    ELSE IF options[key] # PyNone THEN options[key]
    ELSE DocumentedDefault(key)

\* C1: once _parse_config has run, every key holds the environment's value
\* when the environment gives one, else the file's value when the file
\* gives one (whatever that value is, empty, zero and false included), else
\* the documented default.
C1_ThreeTierResolution ==
    pc # "parse_config" => \A key \in ConfigKeys : config[key] = ThreeTier(key)

\* the names of the service groups, in the order _populate_groups created
\* them
ServiceGroupsCreated ==
    LET IsServiceGroup(c) == c.line = 179
        made == SelectSeq(calls, IsServiceGroup)
    IN  [i \in 1..Len(made) |-> made[i].group.s]

\* C2: the service groups created so far are lowercase, in increasing
\* order, and none is created twice.
C2_ServiceGroupsSortedUnique ==
    /\ \A i \in 1..Len(ServiceGroupsCreated) :
          ServiceGroupsCreated[i] = Lower(ServiceGroupsCreated[i])
    /\ \A i, j \in 1..Len(ServiceGroupsCreated) :
          i < j => StrLess(ServiceGroupsCreated[i], ServiceGroupsCreated[j])

\* host h has ansible_host equal to its name and a configurations variable,
\* the empty mapping when there are no services
HasOwnNameAndConfigurations(h) ==
    LET v == HostVars(inventory, h)
    IN  /\ S_ansible_host \in DOMAIN v
        /\ v[S_ansible_host] = PyStr(h)
        /\ S_configurations \in DOMAIN v
        /\ v[S_configurations].t = "dict"
        /\ services_name = <<>> => v[S_configurations] = PyDict(EmptyDict)

\* a detail field named key was copied to host h (line 216)
FieldCopied(h, key) ==
    \E i \in 1..Len(calls) :
        calls[i].line = 216 /\ calls[i].host = h /\ calls[i].key = key

\* C3, as claimed: after a run that completes, every host of the inventory
\* has ansible_host equal to its own name and a configurations variable,
\* the empty mapping when no services exist.
C3_EveryHostHasOwnName ==
    pc = "done" => \A h \in inventory.hosts : HasOwnNameAndConfigurations(h)

\* the cluster hosts C3 holds of: not named localhost, and with no detail
\* field named ansible_host or configurations
PlainClusterHost(h) ==
    /\ h \in Range(hosts_name)
    /\ h # S_localhost
    /\ ~FieldCopied(h, S_ansible_host)
    /\ ~FieldCopied(h, S_configurations)

\* C3, amended: after a run that completes, every cluster host that is not
\* named localhost and has no detail field named ansible_host or
\* configurations has ansible_host equal to its own name and a
\* configurations variable, the empty mapping when no services exist.
C3_ClusterHostsHaveOwnName ==
    pc = "done" =>
        \A h \in inventory.hosts :
            PlainClusterHost(h) => HasOwnNameAndConfigurations(h)

\* C3, witness: a completed run with services and such a cluster host
C3_Witness ==
    /\ pc = "done"
    /\ services_name # <<>>
    /\ \E h \in inventory.hosts :
          PlainClusterHost(h) /\ HasOwnNameAndConfigurations(h)

\* the run was aborted by the last response of the service-configuration
\* endpoint: the error carries its status, and the inventory was not called
\* since, so that the groups of the management server and of the local
\* execution are not there
AbortedByLastResponse ==
    /\ pc = "error"
    /\ error = [kind |-> "HTTPError", status |-> last_response.status]
    /\ Len(calls) = last_response.calls
    /\ S_ambari_server \notin inventory.groups
    /\ S_local \notin inventory.groups

\* C4, as claimed: a response of the service-configuration endpoint whose
\* status is not 2xx aborts the run with an error that carries the status,
\* and the inventory is not called after it.
C4_Non2xxAborts ==
    (last_response # NoResponse
        /\ ~(200 <= last_response.status /\ last_response.status < 300))
    => AbortedByLastResponse

\* C4, amended: a response of the service-configuration endpoint whose
\* status is 4xx or 5xx aborts the run with an error that carries the
\* status, and the inventory is not called after it.
C4_ErrorStatusAborts ==
    (400 <= last_response.status /\ last_response.status < 600)
    => AbortedByLastResponse

\* C4, witness: a 404 that aborts a run whose inventory holds a host
C4_Witness ==
    /\ last_response.status = 404
    /\ last_response.calls > 0
    /\ AbortedByLastResponse

\* the run went past _get_cluster_name with an empty cluster listing
EmptyListingReturned ==
    /\ cluster_name = PyNone
    /\ pc \notin {"parse_config", "initialize_client", "get_cluster_name"}
    /\ pc = "error" => \E r \in requests_sent : r.api = "services"

\* C5: an empty cluster listing fails the run at the selection of the
\* cluster, with a no-cluster-found error: no other request is issued and
\* the inventory is not called.
C5_EmptyListingFails ==
    EmptyListingReturned =>
        /\ pc = "error"
        /\ error.kind = "NoClusterFoundError"
        /\ \A r \in requests_sent : r.api = "clusters"
        /\ calls = <<>>

\* C6: _get_hosts_name returns names in increasing order, none twice, and
\* no name of a host whose status is not HEALTHY.
C6_OnlyHealthyHosts ==
    /\ \A i, j \in 1..Len(hosts_name) :
          i < j => StrLess(hosts_name[i], hosts_name[j])
    /\ \A h \in hosts_listing :
          h.host_status # "HEALTHY" => h.host_name \notin Range(hosts_name)

\* C7: every request of the run verifies the certificate if and only if
\* validate_ssl resolved to true.
C7_VerifyIffValidateSsl ==
    \A r \in requests_sent :
        Truthy(r.verify) <=> ConfigGet("validate_ssl") = PyBool(TRUE)

\* the SSH override keys, with the host variable of each
OverrideKeys == {<<"ansible_user", S_ansible_user>>,
                 <<"ansible_ssh_pass", S_ansible_ssh_pass>>}

\* the hosts _populate_hosts has written
WrittenHosts == {hosts_name[i] : i \in 1..(host_index - 1)}

\* a value that is resolved and not empty
NonEmpty(v) == v # PyNone /\ v # PyStr(<<>>)

\* the variable of override k is on host h if and only if its key resolved
\* to a non-empty value, and then holds that value
OverrideAsResolved(h, k) ==
    LET v == HostVars(inventory, h)
    IN  /\ k[2] \in DOMAIN v <=> NonEmpty(config[k[1]])
        /\ k[2] \in DOMAIN v => v[k[2]] = config[k[1]]

\* C8, as claimed: on every host _populate_hosts has written, the variable
\* of each SSH override is set if and only if the key resolved to a
\* non-empty value, and then equals that value.
C8_OverridesIffResolved ==
    \A h \in WrittenHosts : \A k \in OverrideKeys : OverrideAsResolved(h, k)

\* C8, amended: the same, on every written host whose detail record has no
\* field named as the override.
C8_OverridesIffResolvedNoField ==
    \A h \in WrittenHosts : \A k \in OverrideKeys :
        ~FieldCopied(h, k[2]) => OverrideAsResolved(h, k)

\* C8, witness: a written host that carries the resolved ansible_user
C8_Witness ==
    \E h \in WrittenHosts :
        /\ ~FieldCopied(h, S_ansible_user)
        /\ NonEmpty(config["ansible_user"])
        /\ S_ansible_user \in DOMAIN HostVars(inventory, h)
        /\ OverrideAsResolved(h, <<"ansible_user", S_ansible_user>>)

\* the service and component pairs _populate_groups has gone through
PairsPopulated ==
    {c \in components_listing :
        \E i \in 1..(service_index - 1) : services_name[i] = c.service_name}

\* C9: no group is a child of itself; the group of every component gone
\* through exists, and is a child of its service's group when their
\* lowercase names differ.
C9_NoSelfChild ==
    /\ \A e \in inventory.children : e[1] # e[2]
    /\ \A c \in PairsPopulated :
          /\ Lower(c.component_name) \in inventory.groups
          /\ Lower(c.service_name) # Lower(c.component_name)
                => <<Lower(c.service_name), Lower(c.component_name)>>
                       \in inventory.children

\* C9, witness: a component named as its service and one that is not
C9_Witness ==
    \E c \in PairsPopulated, d \in PairsPopulated :
        /\ Lower(c.service_name) = Lower(c.component_name)
        /\ Lower(c.component_name) \in inventory.groups
        /\ Lower(d.service_name) # Lower(d.component_name)
        /\ <<Lower(d.service_name), Lower(d.component_name)>> \in inventory.children

\* call i of the run names only what an earlier call added
NamesOnlyAdded(i) ==
    LET c == calls[i]
        GroupAdded(g) ==
            \E j \in 1..(i - 1) : calls[j].op = "add_group" /\ calls[j].group.s = g
        HostAdded(h) ==
            \E j \in 1..(i - 1) : calls[j].op = "add_host" /\ calls[j].host = h
    IN  CASE c.op = "set_variable" -> HostAdded(c.host)
          [] c.op = "add_child"    -> GroupAdded(c.group.s) /\ GroupAdded(c.child)
          [] c.op = "add_host"     -> c.group # PyNone => GroupAdded(c.group.s)
          [] OTHER                 -> TRUE

\* C10: every call on the inventory names only hosts and groups that an
\* earlier call of the run added.
C10_OnlyKnownIdentifiers ==
    \A i \in 1..Len(calls) : NamesOnlyAdded(i)

====
